---- MODULE Spec2Model ----
(***************************************************************************)
(* Model of the sports question-answering pipeline of sofascore.py:        *)
(* SportsQA.setup_llm (LLM initialisation with retry and backoff),         *)
(* SportsQA._get_sport_from_question (keyword classifier),                 *)
(* SportsQA._get_knowledge_base_response (static knowledge responder) and  *)
(* SportsQA.answer_question (LLM call with knowledge-base fallback).       *)
(* Python strings are TLA+ strings; every string operation the code uses   *)
(* (lower, title, replace, join, the `in` substring test) is computed      *)
(* character by character.                                                 *)
(***************************************************************************)
EXTENDS Integers, Sequences, FiniteSets, TLC

(***************************************************************************)
(* Bounds of the model.                                                    *)
(***************************************************************************)
\* largest number of fragments of a question put to answer_question
MaxWords == 1
\* largest number of fragments of a question put to a helper on its own
MaxFnWords == 2
\* largest number of answer_question calls in one run
MaxCalls == 2

(***************************************************************************)
(* String primitives of Python used by the code.                           *)
(***************************************************************************)
UpperChars == "ABCDEFGHIJKLMNOPQRSTUVWXYZ"

LowerChars == "abcdefghijklmnopqrstuvwxyz"

CharAt(s, i) == SubSeq(s, i, i)

\* upper-case letter -> its lower-case letter
ToLowerMap ==
    [c \in {CharAt(UpperChars, i) : i \in 1..Len(UpperChars)} |->
        CharAt(LowerChars, CHOOSE i \in 1..Len(UpperChars) : CharAt(UpperChars, i) = c)]

\* lower-case letter -> its upper-case letter
ToUpperMap ==
    [c \in {CharAt(LowerChars, i) : i \in 1..Len(LowerChars)} |->
        CharAt(UpperChars, CHOOSE i \in 1..Len(LowerChars) : CharAt(LowerChars, i) = c)]

IsUpper(c) == c \in DOMAIN ToLowerMap

IsLower(c) == c \in DOMAIN ToUpperMap

IsCased(c) == IsUpper(c) \/ IsLower(c)

LowerChar(c) == IF IsUpper(c) THEN ToLowerMap[c] ELSE c

UpperChar(c) == IF IsLower(c) THEN ToUpperMap[c] ELSE c

RECURSIVE LowerFrom(_, _)
LowerFrom(s, i) ==
    IF i > Len(s) THEN "" ELSE LowerChar(CharAt(s, i)) \o LowerFrom(s, i + 1)

\* str.lower()
Lower(s) == LowerFrom(s, 1)

RECURSIVE TitleFrom(_, _, _)
TitleFrom(s, i, prevCased) ==
    IF i > Len(s) THEN ""
    ELSE LET c == CharAt(s, i)
         IN (IF prevCased THEN LowerChar(c) ELSE UpperChar(c))
            \o TitleFrom(s, i + 1, IsCased(c))

\* str.title() with every character left as it is (a title() that does nothing)
TitleIdentity(s) == s

\* str.title(): a cased character is upper-cased when it follows an uncased
\* one (or starts the string) and lower-cased when it follows a cased one
Title(s) == TitleFrom(s, 1, FALSE)

RECURSIVE ReplaceFrom(_, _, _, _)
ReplaceFrom(s, i, old, new) ==
    IF i > Len(s) THEN ""
    ELSE IF i + Len(old) - 1 <= Len(s) /\ SubSeq(s, i, i + Len(old) - 1) = old
         THEN new \o ReplaceFrom(s, i + Len(old), old, new)
         ELSE CharAt(s, i) \o ReplaceFrom(s, i + 1, old, new)

\* str.replace(old, new) for a non-empty old
Replace(s, old, new) == ReplaceFrom(s, 1, old, new)

RECURSIVE JoinFrom(_, _, _)
JoinFrom(sep, items, i) ==
    IF i > Len(items) THEN ""
    ELSE IF i = Len(items) THEN items[i]
    ELSE items[i] \o sep \o JoinFrom(sep, items, i + 1)

\* sep.join(items)
Join(sep, items) == JoinFrom(sep, items, 1)

\* sub in s
Contains(s, sub) ==
    \E i \in 1..(Len(s) - Len(sub) + 1) : SubSeq(s, i, i + Len(sub) - 1) = sub

(***************************************************************************)
(* The static knowledge base.  Sequences keep the insertion order of the   *)
(* Python lists and dicts.                                                 *)
(***************************************************************************)
SPORTS_KNOWLEDGE ==
    "basketball" :> [metrics |-> <<"points", "rebounds", "assists", "steals", "blocks", "field_goals_made", "field_goals_attempted">>,
        key_concepts |-> <<
            [name |-> "scoring",
             text |-> "Basketball scoring involves field goals (2 points), three-pointers (3 points), and free throws (1 point)"],
            [name |-> "efficiency",
             text |-> "Efficiency in basketball is measured through shooting percentages, points per attempt, and overall impact"],
            [name |-> "defense",
             text |-> "Defensive success is measured through blocks, steals, and opponent's shooting percentage"]>>]
    @@ "football_nfl" :> [metrics |-> <<"passing_yards", "rushing_yards", "touchdowns", "interceptions", "sacks">>,
        key_concepts |-> <<
            [name |-> "quarterback",
             text |-> "Success factors include accuracy, decision-making, leadership, arm strength, and ability to read defenses"],
            [name |-> "offense",
             text |-> "Effective offense combines passing and rushing strategies with good play-calling"],
            [name |-> "defense",
             text |-> "Strong defense requires tackling ability, coverage skills, and defensive coordination"]>>]
    @@ "tennis" :> [metrics |-> <<"aces", "double_faults", "first_serve_percentage", "break_points_saved">>,
        key_concepts |-> <<
            [name |-> "roland_garros",
             text |-> "Unique for its clay courts, which affect play style, requiring endurance and tactical play"],
            [name |-> "serving",
             text |-> "Effective serving combines power, accuracy, and variety to keep opponents off-balance"],
            [name |-> "strategy",
             text |-> "Success requires adapting to different surfaces, managing energy, and exploiting opponent weaknesses"]>>]

QUARTERBACK_TEXT ==
    "\n"
    \o "A successful NFL quarterback requires several key attributes:\n"
    \o "\n"
    \o "1. Physical Skills:\n"
    \o "   - Strong and accurate arm\n"
    \o "   - Mobility in the pocket\n"
    \o "   - Quick release\n"
    \o "\n"
    \o "2. Mental Attributes:\n"
    \o "   - Decision-making under pressure\n"
    \o "   - Ability to read defenses\n"
    \o "   - Leadership qualities\n"
    \o "   - Game management skills\n"
    \o "\n"
    \o "3. Technical Abilities:\n"
    \o "   - Precise ball placement\n"
    \o "   - Understanding of offensive schemes\n"
    \o "   - Ability to make pre-snap adjustments\n"
    \o "\n"
    \o "4. Intangibles:\n"
    \o "   - Work ethic and preparation\n"
    \o "   - Clutch performance\n"
    \o "   - Team leadership\n"
    \o "   - Communication skills\n"
    \o "\n"
    \o "Success also depends heavily on the supporting cast, including offensive line protection, receiver quality, and coaching system.\n"

ROLAND_GARROS_TEXT ==
    "\n"
    \o "Roland Garros is unique among tennis tournaments for several key reasons:\n"
    \o "\n"
    \o "1. Clay Court Surface:\n"
    \o "   - Only Grand Slam played on clay\n"
    \o "   - Slower pace of play\n"
    \o "   - Different playing style required\n"
    \o "   - Tests endurance and patience\n"
    \o "\n"
    \o "2. Historical Significance:\n"
    \o "   - One of the four Grand Slams\n"
    \o "   - Rich history dating back to 1891\n"
    \o "   - Named after a French aviation pioneer\n"
    \o "\n"
    \o "3. Playing Characteristics:\n"
    \o "   - Longer rallies\n"
    \o "   - Higher bounces\n"
    \o "   - Favors defensive players\n"
    \o "   - Tests physical endurance\n"
    \o "\n"
    \o "4. Unique Challenges:\n"
    \o "   - Sliding techniques required\n"
    \o "   - Different strategy needed\n"
    \o "   - Weather can significantly impact play\n"
    \o "\n"
    \o "The tournament is particularly challenging for players who specialize in faster surfaces, making it one of the most demanding tennis events.\n"

(***************************************************************************)
(* Outcomes of a Python call: a returned value or a raised exception.      *)
(* asked lists the sports the knowledge responder was called with.         *)
(***************************************************************************)
Return(v, sports) == [kind |-> "return", value |-> v, asked |-> sports]

Raise(e, sports) == [kind |-> "raise", value |-> e, asked |-> sports]

NoResult == [kind |-> "none", value |-> "", asked |-> <<>>]

(***************************************************************************)
(* SportsQA._get_sport_from_question                                       *)
(***************************************************************************)
\* iteration order of the keywords dict
SportOrder == <<"basketball", "football_nfl", "tennis">>

keywords ==
    "basketball" :> <<"basketball", "nba", "wnba", "points", "rebounds", "court">>
    @@ "football_nfl" :> <<"football", "nfl", "quarterback", "touchdown", "yards">>
    @@ "tennis" :> <<"tennis", "roland garros", "serve", "court", "grand slam">>

\* sum(1 for kw in kws if kw in question), question already lower-cased
CountMatches(lowered, kws) ==
    Cardinality({i \in DOMAIN kws : Contains(lowered, kws[i])})

\* the matches dict of a question
Matches(question) ==
    [s \in DOMAIN keywords |-> CountMatches(Lower(question), keywords[s])]

\* max() keeping the last of several maximal items
MaxKeyLast(m) ==
    LET best == CHOOSE i \in DOMAIN SportOrder :
                    /\ \A j \in DOMAIN SportOrder : m[SportOrder[j]] <= m[SportOrder[i]]
                    /\ \A j \in DOMAIN SportOrder : j > i => m[SportOrder[j]] < m[SportOrder[i]]
    IN SportOrder[best]

\* max(matches.items(), key=lambda x: x[1])[0]: Python's max keeps the first
\* of several maximal items in iteration order
MaxKey(m) ==
    LET best == CHOOSE i \in DOMAIN SportOrder :
                    /\ \A j \in DOMAIN SportOrder : m[SportOrder[j]] <= m[SportOrder[i]]
                    /\ \A j \in DOMAIN SportOrder : j < i => m[SportOrder[j]] < m[SportOrder[i]]
    IN SportOrder[best]

\* a default that is not a key of the knowledge base
DefaultOutsideKnowledge == "soccer"

\* the default of the all-zero case
DefaultSport == "basketball"

get_sport_from_question(question) ==
    LET matches == Matches(question)
    IN IF \E s \in DOMAIN matches : matches[s] # 0
       THEN MaxKey(matches)
       ELSE DefaultSport

(***************************************************************************)
(* SportsQA._get_knowledge_base_response                                   *)
(***************************************************************************)
ConceptTexts(concepts) == [i \in DOMAIN concepts |-> concepts[i].text]

\* the f-string of the else branch
GenericText(sport) ==
    LET knowledge == SPORTS_KNOWLEDGE[sport]
    IN "\nKey aspects of " \o Replace(sport, "_", " ") \o ":\n"
       \o "\n"
       \o "1. Important Metrics:\n"
       \o "   " \o Title(Join(", ", knowledge.metrics)) \o "\n"
       \o "\n"
       \o "2. Key Concepts:\n"
       \o "   " \o Join(" ", ConceptTexts(knowledge.key_concepts)) \o "\n"
       \o "\n"
       \o "3. Success Factors:\n"
       \o "   - Physical skills and athleticism\n"
       \o "   - Technical proficiency\n"
       \o "   - Strategic understanding\n"
       \o "   - Mental toughness\n"
       \o "   - Consistent performance\n"

\* the responder with the sport tests of the two trigger rules left out
ResponseIgnoringSport(question, sport) ==
    IF sport \notin DOMAIN SPORTS_KNOWLEDGE
    THEN Raise("KeyError", <<sport>>)
    ELSE IF Contains(Lower(question), "quarterback")
    THEN Return(QUARTERBACK_TEXT, <<sport>>)
    ELSE IF Contains(Lower(question), "roland garros")
    THEN Return(ROLAND_GARROS_TEXT, <<sport>>)
    ELSE Return(GenericText(sport), <<sport>>)

\* the responder looking the sport up under its display name
ResponseByDisplayName(question, sport) ==
    IF Replace(sport, "_", " ") \notin DOMAIN SPORTS_KNOWLEDGE
    THEN Raise("KeyError", <<sport>>)
    ELSE Return(GenericText(Replace(sport, "_", " ")), <<sport>>)

get_knowledge_base_response(question, sport) ==
    IF sport \notin DOMAIN SPORTS_KNOWLEDGE
    THEN Raise("KeyError", <<sport>>)
    ELSE IF Contains(Lower(question), "quarterback") /\ sport = "football_nfl"
    THEN Return(QUARTERBACK_TEXT, <<sport>>)
    ELSE IF Contains(Lower(question), "roland garros") /\ sport = "tennis"
    THEN Return(ROLAND_GARROS_TEXT, <<sport>>)
    ELSE Return(GenericText(sport), <<sport>>)

(***************************************************************************)
(* SportsQA.answer_question, the parts after the remote call               *)
(***************************************************************************)
ApologyPrefix ==
    "\n"
    \o "I apologize, but I encountered an error while processing your question.\n"
    \o "Here's a general response based on common sports knowledge:\n"
    \o "\n"

ApologySuffix ==
    "\n"
    \o "\n"
    \o "Feel free to rephrase your question or ask about specific aspects you're interested in.\n"

\* the outer except block: classifies and asks the responder afresh; what it
\* raises escapes to the caller
ApologyHandler(question, askedBefore) ==
    LET r == get_knowledge_base_response(question, get_sport_from_question(question))
    IN IF r.kind = "raise"
       THEN Raise(r.value, askedBefore \o r.asked)
       ELSE Return(ApologyPrefix \o r.value \o ApologySuffix, askedBefore \o r.asked)

\* return self._get_knowledge_base_response(question, sport) inside the outer try
KnowledgeBasePath(question, sport) ==
    LET r == get_knowledge_base_response(question, sport)
    IN IF r.kind = "raise" THEN ApologyHandler(question, r.asked) ELSE r

\* a failed remote call that reaches the outer except block
InvokeFailedUncaught(question, sport) == ApologyHandler(question, <<>>)

\* the inner except block: reports the failure and falls through to the
\* knowledge base
InvokeFailed(question, sport) == KnowledgeBasePath(question, sport)

\* a failed remote call that switches the gateway off
LlmDroppedAfterFailure(l) == "none"

\* self.llm after the inner except block: answer_question assigns nothing
LlmAfterInvokeFailure(l) == l

\* a test that lets every gateway state through
LLMAvailableAlways(l) == TRUE

\* if self.llm:  (None is falsy, a client object truthy)
LLMAvailable(l) == l = "client"

(***************************************************************************)
(* SportsQA.setup_llm                                                      *)
(***************************************************************************)
max_retries == 3

\* a retry test that never gives up
ShouldRetryAlways(attempt) == TRUE

\* if attempt < max_retries - 1
ShouldRetry(attempt) == attempt < max_retries - 1

\* a backoff that starts at two seconds
BackoffFromTwo(attempt) == 2 ^ (attempt + 1)

\* time.sleep(2 ** attempt)
Backoff(attempt) == 2 ^ attempt

ProbeEvent(outcome) == [ev |-> "probe", outcome |-> outcome, secs |-> 0]

SleepEvent(secs) == [ev |-> "sleep", outcome |-> "none", secs |-> secs]

\* where in the try block a probe fails: constructing the client, or the
\* test invoke after self.llm has been assigned
Sites == {"constructor", "invoke"}

(***************************************************************************)
(* Inputs                                                                  *)
(***************************************************************************)
Words == {"Quarterback", "Roland Garros", "NBA", "yards", "tennis serve", "court", "Who"}

\* every question made of at most n fragments, the empty string included
QuestionsOf(n) ==
    {Join(" ", w) : w \in UNION {[1..k -> Words] : k \in 0..n}}

\* questions put to answer_question
Questions == QuestionsOf(MaxWords)

\* questions put to the two helpers on their own
FnQuestions == QuestionsOf(MaxFnWords)

Sports == {SportOrder[i] : i \in DOMAIN SportOrder}

Responses == {"", "The answer of the model"}

(***************************************************************************)
(* State                                                                   *)
(***************************************************************************)
VARIABLES
    pc,          \* "setup": inside setup_llm; "idle": between calls of
                 \* answer_question; "invoking": waiting for the remote call
    llm,         \* self.llm: "unset", "client" or "none"
    attempt,     \* loop variable of setup_llm
    trace,       \* probes and sleeps of setup_llm, in order
    question,    \* argument of the current or last answer_question
    sport,       \* its classified sport
    result,      \* outcome of the last finished answer_question
    path,        \* how the last finished answer_question produced its result
    remote,      \* remote call of the current or last answer_question
    response,    \* text of the last successful remote call
    calls,       \* answer_question calls started
    callRemote,  \* remote calls issued by the current or last answer_question
    remoteCalls, \* remote calls issued by answer_question in total
    fnQuestion,  \* question argument of the helper applied on its own
    fnSport,     \* sport argument of _get_knowledge_base_response
    fnClass,     \* value of _get_sport_from_question(fnQuestion)
    fnOut        \* outcome of _get_knowledge_base_response(fnQuestion, fnSport)

setupVars == <<pc, llm, attempt, trace>>

answerVars == <<question, sport, result, path, remote, response, calls,
                callRemote, remoteCalls>>

fnVars == <<fnQuestion, fnSport, fnClass, fnOut>>

vars == <<setupVars, answerVars, fnVars>>

InitPipeline ==
    /\ pc = "setup"
    /\ llm = "unset"
    /\ attempt = 0
    /\ trace = <<>>
    /\ question = ""
    /\ sport = "none"
    /\ result = NoResult
    /\ path = "none"
    /\ remote = "none"
    /\ response = ""
    /\ calls = 0
    /\ callRemote = 0
    /\ remoteCalls = 0

\* the object under construction: __init__ is about to call setup_llm
Init ==
    /\ InitPipeline
    /\ fnQuestion = ""
    /\ fnSport = "none"
    /\ fnClass = "none"
    /\ fnOut = NoResult

\* the for loop goes on while range(max_retries) has another value
LoopPc(nextAttempt) == IF nextAttempt < max_retries THEN "setup" ELSE "idle"

\* the try block runs to its return
ProbeSucceeds ==
    /\ pc = "setup"
    /\ attempt < max_retries
    /\ llm' = "client"
    /\ trace' = Append(trace, ProbeEvent("ok"))
    /\ pc' = "idle"
    /\ UNCHANGED <<attempt, answerVars, fnVars>>

\* except APIConnectionError
ProbeConnectionError(site) ==
    /\ pc = "setup"
    /\ attempt < max_retries
    /\ LET assigned == IF site = "invoke" THEN "client" ELSE llm
       IN IF ShouldRetry(attempt)
          THEN /\ trace' = trace \o <<ProbeEvent("connectivity"), SleepEvent(Backoff(attempt))>>
               /\ llm' = assigned
          ELSE /\ trace' = Append(trace, ProbeEvent("connectivity"))
               /\ llm' = "none"
    /\ attempt' = attempt + 1
    /\ pc' = LoopPc(attempt + 1)
    /\ UNCHANGED <<answerVars, fnVars>>

\* except Exception ... break
ProbeOtherError(site) ==
    /\ pc = "setup"
    /\ attempt < max_retries
    /\ llm' = "none"
    /\ trace' = Append(trace, ProbeEvent("other"))
    /\ pc' = "idle"
    /\ UNCHANGED <<attempt, answerVars, fnVars>>

\* answer_question up to the remote call, or to its return when no remote
\* call is made
AnswerQuestion(q) ==
    /\ pc = "idle"
    /\ calls < MaxCalls
    /\ question' = q
    /\ sport' = get_sport_from_question(q)
    /\ calls' = calls + 1
    /\ IF llm = "unset"
       THEN \* reading self.llm raises AttributeError inside the outer try
            /\ result' = ApologyHandler(q, <<>>)
            /\ path' = "attribute_error"
            /\ remote' = "none"
            /\ callRemote' = 0
            /\ pc' = "idle"
            /\ UNCHANGED remoteCalls
       ELSE IF LLMAvailable(llm)
       THEN \* self.llm.invoke(...) is issued; result and path keep the
            \* outcome of the last finished call until this one finishes
            /\ remote' = "pending"
            /\ callRemote' = 1
            /\ remoteCalls' = remoteCalls + 1
            /\ pc' = "invoking"
            /\ UNCHANGED <<result, path>>
       ELSE /\ result' = KnowledgeBasePath(q, sport')
            /\ path' = "knowledge_base"
            /\ remote' = "none"
            /\ callRemote' = 0
            /\ pc' = "idle"
            /\ UNCHANGED remoteCalls
    /\ UNCHANGED <<llm, attempt, trace, response, fnVars>>

\* return str(response.content)
InvokeReturns(r) ==
    /\ pc = "invoking"
    /\ result' = Return(r, <<>>)
    /\ path' = "llm"
    /\ remote' = "ok"
    /\ response' = r
    /\ pc' = "idle"
    /\ UNCHANGED <<llm, attempt, trace, question, sport, calls, callRemote,
                   remoteCalls, fnVars>>

\* except Exception inside answer_question, then the knowledge base
InvokeRaises ==
    /\ pc = "invoking"
    /\ result' = InvokeFailed(question, sport)
    /\ path' = "fallback"
    /\ remote' = "error"
    /\ llm' = LlmAfterInvokeFailure(llm)
    /\ pc' = "idle"
    /\ UNCHANGED <<attempt, trace, question, sport, response, calls, callRemote,
                   remoteCalls, fnVars>>

Next ==
    \/ ProbeSucceeds
    \/ \E site \in Sites : ProbeConnectionError(site)
    \/ \E site \in Sites : ProbeOtherError(site)
    \/ \E q \in Questions : AnswerQuestion(q)
    \/ \E r \in Responses : InvokeReturns(r)
    \/ InvokeRaises

Spec == Init /\ [][Next]_vars

(***************************************************************************)
(* The two helpers applied on their own to every question and every sport  *)
(* of the closed set.                                                      *)
(***************************************************************************)
InitFunctions ==
    /\ InitPipeline
    /\ fnQuestion \in FnQuestions
    /\ fnSport \in Sports
    /\ fnClass = "none"
    /\ fnOut = NoResult

Classify ==
    /\ fnClass = "none"
    /\ fnClass' = get_sport_from_question(fnQuestion)
    /\ UNCHANGED <<setupVars, answerVars, fnQuestion, fnSport, fnOut>>

Respond ==
    /\ fnOut = NoResult
    /\ fnOut' = get_knowledge_base_response(fnQuestion, fnSport)
    /\ UNCHANGED <<setupVars, answerVars, fnQuestion, fnSport, fnClass>>

NextFunctions == Classify \/ Respond

SpecFunctions == InitFunctions /\ [][NextFunctions]_vars

(***************************************************************************)
(* Properties                                                              *)
(***************************************************************************)
\* an answer_question call has finished and no other is in progress
Done == pc = "idle" /\ calls > 0

IsProbe(e) == e.ev = "probe"

\* the probes of setup_llm so far, in order
ProbeEvents == SelectSeq(trace, IsProbe)

\* C1: answer_question never raises: whatever the question (the empty string
\* included), the gateway state and the outcome of the remote call, every
\* finished call has returned a value; nothing escapes, not from the apology
\* handler either.
C1_AnswerNeverRaises ==
    Done => result.kind = "return"

\* a call with the empty question whose remote call raised has returned
C1_Witness ==
    /\ Done
    /\ question = ""
    /\ llm = "client"
    /\ remote = "error"
    /\ result.kind = "return"

\* C2: once setup_llm has left self.llm None, answer_question never issues a
\* remote call: the count of remote calls stays zero over every sequence of
\* calls, and no call waits for a remote answer.
C2_DisabledNeverInvokes ==
    (pc # "setup" /\ llm = "none") =>
        /\ remoteCalls = 0
        /\ callRemote = 0
        /\ pc # "invoking"
        /\ remote = "none"

\* two calls have finished on a disabled gateway
C2_Witness ==
    /\ Done
    /\ llm = "none"
    /\ calls > 1
    /\ remoteCalls = 0

\* C3: a finished call returns the remote text verbatim, the responder not
\* asked, when the gateway is ready and the remote call succeeded; in every
\* other case it returns exactly the responder's answer for the question and
\* its classified sport, without apology; and a call issues at most one
\* remote call.
C3_ResultOfAnswer ==
    /\ callRemote <= 1
    /\ Done =>
        IF llm = "client" /\ remote = "ok"
        THEN /\ result = Return(response, <<>>)
             /\ callRemote = 1
        ELSE /\ result.kind = "return"
             /\ result.value =
                    get_knowledge_base_response(
                        question, get_sport_from_question(question)).value
             /\ (llm = "client" => remote = "error" /\ callRemote = 1)
             /\ (llm # "client" => remote = "none" /\ callRemote = 0)

\* the remote call of a quarterback question failed and the call returned the
\* fixed quarterback text
C3_Witness ==
    /\ Done
    /\ llm = "client"
    /\ remote = "error"
    /\ Contains(Lower(question), "quarterback")
    /\ result.value = QUARTERBACK_TEXT

\* C4: when every probe of setup_llm failed with a connectivity error,
\* setup_llm has made exactly three probes, slept 1 second after the first
\* and 2 seconds after the second, each sleep before the next probe and none
\* after the third, has left self.llm None and has returned.
C4_ThreeConnectivityFailures ==
    (/\ pc # "setup"
     /\ \A i \in DOMAIN ProbeEvents : ProbeEvents[i].outcome = "connectivity") =>
        /\ trace = <<ProbeEvent("connectivity"), SleepEvent(1),
                     ProbeEvent("connectivity"), SleepEvent(2),
                     ProbeEvent("connectivity")>>
        /\ Len(ProbeEvents) = 3
        /\ llm = "none"
        /\ pc \in {"idle", "invoking"}

\* setup_llm has returned after three connectivity failures
C4_Witness ==
    /\ pc = "idle"
    /\ calls = 0
    /\ Len(ProbeEvents) = 3
    /\ \A i \in DOMAIN ProbeEvents : ProbeEvents[i].outcome = "connectivity"
    /\ llm = "none"

\* C5: setup_llm makes at most three probes and nothing follows the first
\* success or the first non-connectivity failure: no probe and no sleep.  A
\* non-connectivity failure leaves self.llm None, a success leaves the
\* client, and after setup_llm the gateway is ready exactly when its last
\* probe succeeded.
C5_ProbePolicy ==
    /\ Len(ProbeEvents) <= 3
    /\ \A i \in DOMAIN trace :
           (trace[i].ev = "probe" /\ trace[i].outcome # "connectivity")
               => i = Len(trace)
    /\ \A i \in DOMAIN trace :
           trace[i].ev = "sleep" =>
               /\ i > 1
               /\ i < Len(trace) \/ pc = "setup"
               /\ trace[i - 1] = ProbeEvent("connectivity")
    /\ (trace # <<>> /\ trace[Len(trace)].outcome = "other") =>
           (llm = "none" /\ pc # "setup")
    /\ (trace # <<>> /\ trace[Len(trace)].outcome = "ok") =>
           (llm = "client" /\ pc # "setup")
    /\ pc # "setup" =>
           (llm = "client" <=> ProbeEvents[Len(ProbeEvents)].outcome = "ok")

\* the third probe succeeded after two connectivity failures
C5_Witness ==
    /\ pc = "idle"
    /\ llm = "client"
    /\ Len(ProbeEvents) = 3
    /\ ProbeEvents[1].outcome = "connectivity"
    /\ ProbeEvents[2].outcome = "connectivity"
    /\ ProbeEvents[3].outcome = "ok"

\* the highest count of a question is shared by two or more sports
SharedMaximum(m) ==
    \E s, t \in Sports :
        /\ s # t
        /\ m[s] = m[t]
        /\ \A u \in Sports : m[u] <= m[s]

\* C6 as stated: a sport other than basketball is selected only when its
\* count is strictly higher than the count of each of the other two, and a
\* shared highest count (all three zero included) selects basketball.
C6_Original ==
    fnClass # "none" =>
        LET m == Matches(fnQuestion)
        IN /\ fnClass # "basketball" =>
                  \A s \in Sports \ {fnClass} : m[fnClass] > m[s]
           /\ SharedMaximum(m) => fnClass = "basketball"

\* C6 amended: the selected sport is the first one, in the order basketball,
\* football_nfl, tennis, that has the highest count: football_nfl needs more
\* matches than basketball and at least as many as tennis, tennis needs more
\* than both, basketball is selected otherwise (all three counts zero
\* included).
C6_FirstMaximumWins ==
    fnClass # "none" =>
        LET m == Matches(fnQuestion)
        IN /\ fnClass \in Sports
           /\ fnClass = "football_nfl" <=>
                  (/\ m["football_nfl"] > m["basketball"]
                   /\ m["football_nfl"] >= m["tennis"])
           /\ fnClass = "tennis" <=>
                  (/\ m["tennis"] > m["basketball"]
                   /\ m["tennis"] > m["football_nfl"])
           /\ (\A s \in Sports : m[s] = 0) => fnClass = "basketball"

\* football_nfl and tennis share the highest count and football_nfl is selected
C6_Witness ==
    /\ fnClass = "football_nfl"
    /\ Matches(fnQuestion)["football_nfl"] = Matches(fnQuestion)["tennis"]
    /\ Matches(fnQuestion)["basketball"] < Matches(fnQuestion)["tennis"]

\* C7: the classifier is total and closed over the knowledge base: the sports
\* are exactly the keys of the knowledge base, every question (the empty one
\* included) is classified as one of them, and every sport the responder is
\* asked about, on the primary path and in the apology handler, is a key, so
\* that its lookup never fails and the responder is asked once.
C7_ClassificationClosed ==
    /\ DOMAIN SPORTS_KNOWLEDGE = Sports
    /\ calls > 0 => sport \in DOMAIN SPORTS_KNOWLEDGE
    /\ \A i \in DOMAIN result.asked : result.asked[i] \in DOMAIN SPORTS_KNOWLEDGE
    /\ result.kind # "raise"
    /\ (Done /\ remote # "ok") => result.asked = <<sport>>

\* the empty question has been answered from the knowledge base as basketball
C7_Witness ==
    /\ Done
    /\ question = ""
    /\ path = "knowledge_base"
    /\ result.asked = <<"basketball">>

\* C8: the responder returns the quarterback text exactly when the lower-cased
\* question contains "quarterback" and the sport is football_nfl; otherwise
\* the Roland-Garros text exactly when it contains "roland garros" and the
\* sport is tennis; otherwise the generic synthesis of the sport.
C8_SelectionPolicy ==
    fnOut # NoResult =>
        LET low == Lower(fnQuestion)
            first == Contains(low, "quarterback") /\ fnSport = "football_nfl"
            second == Contains(low, "roland garros") /\ fnSport = "tennis"
        IN /\ fnOut.kind = "return"
           /\ fnOut.value = QUARTERBACK_TEXT <=> first
           /\ fnOut.value = ROLAND_GARROS_TEXT <=> (~first /\ second)
           /\ fnOut.value = GenericText(fnSport) <=> (~first /\ ~second)

\* a question with both trigger phrases and the sport football_nfl has got
\* the quarterback text
C8_Witness ==
    /\ fnOut.kind = "return"
    /\ fnSport = "football_nfl"
    /\ Contains(Lower(fnQuestion), "roland garros")
    /\ Contains(Lower(fnQuestion), "quarterback")
    /\ fnOut.value = QUARTERBACK_TEXT

\* the metric lists as str.title() prints them
TitledMetrics ==
    "basketball" :> "Points, Rebounds, Assists, Steals, Blocks, Field_Goals_Made, Field_Goals_Attempted"
    @@ "football_nfl" :> "Passing_Yards, Rushing_Yards, Touchdowns, Interceptions, Sacks"
    @@ "tennis" :> "Aces, Double_Faults, First_Serve_Percentage, Break_Points_Saved"

\* no trigger rule applies to the question and the sport
NoTrigger(q, s) ==
    /\ ~(Contains(Lower(q), "quarterback") /\ s = "football_nfl")
    /\ ~(Contains(Lower(q), "roland garros") /\ s = "tennis")

C10_GatewayStateKept ==
    [][/\ pc # "setup" => llm' = llm
       /\ (Done /\ path = "fallback" /\ calls' = calls + 1) =>
              (pc' = "invoking" /\ remoteCalls' = remoteCalls + 1)]_vars

\* the call after a failed remote call is waiting for its own remote call
C10_Witness ==
    /\ pc = "invoking"
    /\ path = "fallback"
    /\ calls = 2
    /\ remoteCalls = 2
    /\ llm = "client"
====
